---- MODULE Spec2Model ----
(***************************************************************************)
(* State-machine model of sim.py: a lane-based traffic simulation with a   *)
(* rule-based autopilot.  One iteration of the main loop is modelled as a  *)
(* fixed sequence of steps (pc), each step translated from the statements  *)
(* of the loop body.                                                        *)
(*                                                                         *)
(* Numbers.  Car.y and Car.speed are Python floats; they are modelled in   *)
(* fixed point with Scale units per pixel (Scale = 100, so 2.5 px is 250). *)
(* Elapsed time is kept in milliseconds (clock.tick returns integer ms).   *)
(* A product with 0.08 is rounded to the nearest unit.                     *)
(***************************************************************************)
EXTENDS Integers, Sequences, FiniteSets, TLC

\* ---------- CONFIG (sim.py lines 7-24), in pixels / ms ----------
Scale == 100
WIDTH == 900
HEIGHT == 600
LANES == 3
LANE_WIDTH == 120
ROAD_X == (WIDTH \div 2) - ((LANE_WIDTH * LANES) \div 2)
EGO_START_LANE == 1
EGO_START_Y == (HEIGHT - 150) * Scale
EGO_WIDTH == 40
EGO_HEIGHT == 70
TRAFFIC_WIDTH == 40
TRAFFIC_HEIGHT == 70
SPAWN_INTERVAL == 1200
SAFE_DISTANCE == 120 * Scale
MAX_SPEED == 8 * Scale
MIN_SPEED == 2 * Scale
\* literals of the loop body
HALF == Scale \div 2
RESET_SPEED == (9 * Scale) \div 2
INIT_SPEED == 6 * Scale
CULL_MARGIN == 200
\* variant: both buffers of safe_to_change equal
BUFFER_ABOVE_WIDE == 80 * Scale
BUFFER_ABOVE == 40 * Scale
BUFFER_BELOW == 80 * Scale

\* ---------- bounds of the explored inputs ----------
MaxFrames == 40
MaxEvents == 2
MaxBurst == 12
MaxQTraffic == 2

Max(a, b) == IF a >= b THEN a ELSE b
Min(a, b) == IF a <= b THEN a ELSE b

\* ego .. score, running: the globals of lines 49-53 and 99
\* action, tgt_speed, collision: the globals assigned at lines 133 and 159
\* events: the event queue that pygame.event.get() will return
\* pc: the position in the loop body;  ret: the result of the last query
VARIABLES ego, traffic, time_since_spawn, autopilot, score, running,
          action, tgt_speed, collision, events, pc, ret

vars == <<ego, traffic, time_since_spawn, autopilot, score, running,
          action, tgt_speed, collision, events, pc, ret>>

\* ---------- ENTITIES ----------
Car(lane, y, speed, w, h, is_ego) ==
    [lane |-> lane, y |-> y, speed |-> speed, w |-> w, h |-> h, is_ego |-> is_ego]

\* Car.x: ROAD_X + lane*LANE_WIDTH + (LANE_WIDTH - w)/2, in fixed point
CarX(c) == ROAD_X * Scale + c.lane * LANE_WIDTH * Scale + ((LANE_WIDTH - c.w) * Scale) \div 2

\* Python int(): truncation towards zero, result in whole pixels
IntTrunc(v) == IF v >= 0 THEN v \div Scale ELSE -((-v) \div Scale)

\* Car.rect(): pygame.Rect(int(x), int(y), w, h)
Rect(c) == [x |-> IntTrunc(CarX(c)), y |-> IntTrunc(c.y), w |-> c.w, h |-> c.h]

\* variant: rectangles that share an edge count as colliding
ColliderectEdge(a, b) ==
    /\ a.x <= b.x + b.w /\ a.x + a.w >= b.x
    /\ a.y <= b.y + b.h /\ a.y + a.h >= b.y
\* pygame.Rect.colliderect for rectangles of positive size
Colliderect(a, b) ==
    /\ a.x < b.x + b.w /\ a.x + a.w > b.x
    /\ a.y < b.y + b.h /\ a.y + a.h > b.y

None == Car(-1, 0, 0, 0, 0, FALSE)

\* ---------- SIM STATE (sim.py lines 49-53) ----------
EgoInit == Car(EGO_START_LANE, EGO_START_Y, INIT_SPEED, EGO_WIDTH, EGO_HEIGHT, TRUE)

Init ==
    /\ ego = EgoInit
    /\ traffic = <<>>
    /\ time_since_spawn = 0
    /\ autopilot = TRUE
    /\ score = [collisions |-> 0, frames |-> 0]
    /\ running = TRUE
    /\ action = "keep"
    /\ tgt_speed = MAX_SPEED
    /\ collision = FALSE
    /\ events = <<>>
    /\ pc = "tick"
    /\ ret = [fn |-> "none"]

\* ---------- HELPERS ----------
\* the random draws of spawn_traffic: randrange(0, LANES), randint(0, 200),
\* uniform(2.5, 6.5); the sampled offsets and speeds include both ends
SpawnLanes == 0 .. (LANES - 1)
SpawnOffsets == {0, 200 * Scale}
SpawnSpeeds == {(5 * Scale) \div 2, (13 * Scale) \div 2}

spawn_traffic(lane, offset, speed) ==
    Append(traffic, Car(lane, -(TRAFFIC_HEIGHT * Scale) - offset, speed,
                        TRAFFIC_WIDTH, TRAFFIC_HEIGHT, FALSE))

\* bottom edge c.y + c.h
Bottom(c) == c.y + c.h * Scale

\* variant: the comparison of the keys reversed (the farthest vehicle)
RECURSIVE MaxByGap(_, _, _)
MaxByGap(s, y, best) ==
    IF s = <<>> THEN best
    ELSE MaxByGap(Tail(s), y,
                  IF (y - Bottom(Head(s))) > (y - Bottom(best)) THEN Head(s) ELSE best)

\* Python min(seq, key): the first element whose key is minimal
RECURSIVE MinByGap(_, _, _)
MinByGap(s, y, best) ==
    IF s = <<>> THEN best
    ELSE MinByGap(Tail(s), y,
                  IF (y - Bottom(Head(s))) < (y - Bottom(best)) THEN Head(s) ELSE best)

find_vehicle_ahead(lane, y) ==
    LET ahead == SelectSeq(traffic, LAMBDA c : c.lane = lane /\ Bottom(c) < y)
    IN  IF ahead = <<>> THEN None
        ELSE MinByGap(Tail(ahead), y, Head(ahead))

\* the for loop of safe_to_change, from index i on
RECURSIVE SafeFrom(_, _)
SafeFrom(i, target_lane) ==
    IF i > Len(traffic) THEN TRUE
    ELSE IF /\ traffic[i].lane = target_lane
            /\ Bottom(traffic[i]) > ego.y - BUFFER_ABOVE
            /\ traffic[i].y < ego.y + BUFFER_BELOW
         THEN FALSE
         ELSE SafeFrom(i + 1, target_lane)

safe_to_change(target_lane) == SafeFrom(1, target_lane)

\* variant: the blocking vehicle's speed taken as it is
SlowTargetSame(current) == Max(MIN_SPEED, current.speed)
\* target speed when blocked (line 90)
SlowTarget(current) == Max(MIN_SPEED, current.speed - HALF)

\* variant: the loop without the bounds test on the target lane
RECURSIVE TryDirsNoBounds(_, _)
TryDirsNoBounds(dirs, target_speed) ==
    IF dirs = <<>> THEN <<"keep", target_speed>>
    ELSE LET dir_delta == Head(dirs)
             new_lane == ego.lane + dir_delta
         IN  IF safe_to_change(new_lane)
             THEN <<(IF dir_delta = -1 THEN "left" ELSE "right"), target_speed>>
             ELSE TryDirsNoBounds(Tail(dirs), target_speed)

\* the for dir_delta loop (lines 92-95) over the remaining directions
RECURSIVE TryDirs(_, _)
TryDirs(dirs, target_speed) ==
    IF dirs = <<>> THEN <<"keep", target_speed>>
    ELSE LET dir_delta == Head(dirs)
             new_lane == ego.lane + dir_delta
         IN  IF 0 <= new_lane /\ new_lane < LANES /\ safe_to_change(new_lane)
             THEN <<(IF dir_delta = -1 THEN "left" ELSE "right"), target_speed>>
             ELSE TryDirs(Tail(dirs), target_speed)

\* variant: right tried before left
DirOrderRightFirst == <<1, -1>>
DirOrder == <<-1, 1>>

controller_rule_based ==
    LET current == find_vehicle_ahead(ego.lane, ego.y)
    IN  IF current # None
        THEN LET dist == ego.y - Bottom(current)
             IN  IF dist < SAFE_DISTANCE
                 THEN TryDirs(DirOrder, SlowTarget(current))
                 ELSE <<"keep", MAX_SPEED>>
        ELSE <<"keep", MAX_SPEED>>

\* ---------- MAIN LOOP ----------
\* elapsed time of a frame in ms: a regular frame, or a stalled frame (only
\* the frames of StallTicks may stall)
StallTicks == {1, 2}
FrameDts == {40}
StallDts == {40, 1300}
DtSet == IF (score.frames + 1) \in StallTicks THEN StallDts ELSE FrameDts

Keys == {"QUIT", "SPACE", "LEFT", "RIGHT", "UP", "DOWN"}

\* the event queue of frame n.  In the frames of KeyTicks: any short sequence
\* of events, or a burst of MaxBurst repeats of one speed key.  In the frames
\* of SteerTicks: at most one steering key.  Otherwise empty.
KeyTicks == {1}
SteerTicks == {34}
EventLists(n) ==
    IF n \in KeyTicks
    THEN (UNION {[1 .. k -> Keys] : k \in 0 .. MaxEvents})
         \cup {[i \in 1 .. MaxBurst |-> k] : k \in {"UP", "DOWN"}}
    ELSE IF n \in SteerTicks
    THEN {<<>>, <<"LEFT">>, <<"RIGHT">>}
    ELSE {<<>>}

\* lines 100-103: loop test; the frame's events queue up meanwhile, dt = clock.tick(FPS) / 1000.0, frame counter, accumulator
Tick ==
    /\ pc = "tick"
    /\ running
    /\ score.frames < MaxFrames
    /\ \E dt \in DtSet :
          time_since_spawn' = time_since_spawn + dt
    /\ score' = [score EXCEPT !.frames = @ + 1]
    /\ events' \in EventLists(score.frames + 1)
    /\ pc' = "events"
    /\ UNCHANGED <<ego, traffic, autopilot, running, action, tgt_speed, collision, ret>>

\* lines 100, 217-218: the loop ends once running is false
Quit ==
    /\ pc = "tick"
    /\ ~running
    /\ pc' = "done"
    /\ UNCHANGED <<ego, traffic, time_since_spawn, autopilot, score, running,
                   action, tgt_speed, collision, events, ret>>

\* variant: the lane key without its clamp
KeyLeftNoClamp(lane) == lane - 1
KeyLeft(lane) == Max(0, lane - 1)
KeyRight(lane) == Min(LANES - 1, lane + 1)
\* variant: the speed key without its cap
KeyUpNoCap(speed) == speed + HALF
KeyUp(speed) == Min(MAX_SPEED, speed + HALF)
\* variant: the speed key without its floor
KeyDownNoFloor(speed) == speed - HALF
KeyDown(speed) == Max(HALF, speed - HALF)

\* variant: steering and speed keys ignored while the autopilot is on
HandleEventGated(st, ev) ==
    IF ev = "QUIT" THEN [st EXCEPT !.running = FALSE]
    ELSE IF ev = "SPACE" THEN [st EXCEPT !.autopilot = ~st.autopilot]
    ELSE IF st.autopilot THEN st
    ELSE IF ev = "LEFT" THEN [st EXCEPT !.ego.lane = Max(0, st.ego.lane - 1)]
    ELSE IF ev = "RIGHT" THEN [st EXCEPT !.ego.lane = Min(LANES - 1, st.ego.lane + 1)]
    ELSE IF ev = "UP" THEN [st EXCEPT !.ego.speed = Min(MAX_SPEED, st.ego.speed + HALF)]
    ELSE IF ev = "DOWN" THEN [st EXCEPT !.ego.speed = Max(HALF, st.ego.speed - HALF)]
    ELSE st

\* lines 106-118: one event applied to (ego, autopilot, running)
HandleEvent(st, ev) ==
    IF ev = "QUIT" THEN [st EXCEPT !.running = FALSE]
    ELSE IF ev = "SPACE" THEN [st EXCEPT !.autopilot = ~st.autopilot]
    ELSE IF ev = "LEFT" THEN [st EXCEPT !.ego.lane = KeyLeft(st.ego.lane)]
    ELSE IF ev = "RIGHT" THEN [st EXCEPT !.ego.lane = KeyRight(st.ego.lane)]
    ELSE IF ev = "UP" THEN [st EXCEPT !.ego.speed = KeyUp(st.ego.speed)]
    ELSE IF ev = "DOWN" THEN [st EXCEPT !.ego.speed = KeyDown(st.ego.speed)]
    ELSE st

\* line 105: for event in pygame.event.get()
RECURSIVE HandleEvents(_, _)
HandleEvents(st, evs) ==
    IF evs = <<>> THEN st
    ELSE HandleEvents(HandleEvent(st, Head(evs)), Tail(evs))

\* lines 105-118: the queue is drained and every event handled in order
Events ==
    /\ pc = "events"
    /\ LET st == HandleEvents([ego |-> ego, autopilot |-> autopilot, running |-> running], events)
       IN  /\ ego' = st.ego
           /\ autopilot' = st.autopilot
           /\ running' = st.running
    /\ events' = <<>>
    /\ pc' = "spawn"
    /\ UNCHANGED <<traffic, time_since_spawn, score, action, tgt_speed, collision, ret>>

\* line 121
\* variant: the comparison with the interval made non-strict
SpawnDueAtInterval(t) == t >= SPAWN_INTERVAL
SpawnDue(t) == t > SPAWN_INTERVAL

\* lines 121-123: spawn traffic periodically
Spawn ==
    /\ pc = "spawn"
    /\ IF SpawnDue(time_since_spawn)
       THEN /\ \E lane \in SpawnLanes, offset \in SpawnOffsets, speed \in SpawnSpeeds :
                  traffic' = spawn_traffic(lane, offset, speed)
            /\ time_since_spawn' = 0
       ELSE UNCHANGED <<traffic, time_since_spawn>>
    /\ pc' = "move"
    /\ UNCHANGED <<ego, autopilot, score, running, action, tgt_speed, collision, events, ret>>

\* lines 126-127: c.y += c.speed
Move ==
    /\ pc = "move"
    /\ traffic' = [i \in 1 .. Len(traffic) |-> [traffic[i] EXCEPT !.y = @ + traffic[i].speed]]
    /\ pc' = "cull"
    /\ UNCHANGED <<ego, time_since_spawn, autopilot, score, running, action, tgt_speed, collision, events, ret>>

\* variant: a vehicle exactly on the margin is kept
KeepOnMargin(c) == c.y <= (HEIGHT + CULL_MARGIN) * Scale
\* variant: nothing is ever removed
KeepAll(c) == c.y < c.y + 1
\* line 129
Keep(c) == c.y < (HEIGHT + CULL_MARGIN) * Scale

Cull ==
    /\ pc = "cull"
    /\ traffic' = SelectSeq(traffic, Keep)
    /\ pc' = "ego"
    /\ UNCHANGED <<ego, time_since_spawn, autopilot, score, running, action, tgt_speed, collision, events, ret>>

\* x * 0.08, rounded to the nearest unit
Mul008(x) == (x * 8 + 50) \div 100

\* line 141
Clamp(speed) == Max(HALF, Min(MAX_SPEED, speed))

\* line 140-141
Smooth(speed, tgt) == Clamp(speed + Mul008(tgt - speed))

\* lines 135-138: the re-validated lane change
LaneAfter(act) ==
    IF act = "left" /\ ego.lane > 0 /\ safe_to_change(ego.lane - 1) THEN ego.lane - 1
    ELSE IF act = "right" /\ ego.lane < LANES - 1 /\ safe_to_change(ego.lane + 1) THEN ego.lane + 1
    ELSE ego.lane

\* variant: the controller applied whatever the autopilot flag is
EgoLogicAlways ==
    /\ pc = "ego"
    /\ LET r == controller_rule_based
       IN  /\ action' = r[1]
           /\ tgt_speed' = r[2]
           /\ ego' = [ego EXCEPT !.lane = LaneAfter(r[1]),
                                 !.speed = Smooth(ego.speed, r[2])]
    /\ pc' = "egomove"
    /\ UNCHANGED <<traffic, time_since_spawn, autopilot, score, running, collision, events, ret>>

\* lines 132-144: ego logic
EgoLogic ==
    /\ pc = "ego"
    /\ IF autopilot
       THEN LET r == controller_rule_based
            IN  /\ action' = r[1]
                /\ tgt_speed' = r[2]
                /\ ego' = [ego EXCEPT !.lane = LaneAfter(r[1]),
                                      !.speed = Smooth(ego.speed, r[2])]
       ELSE UNCHANGED <<ego, action, tgt_speed>>
    /\ pc' = "egomove"
    /\ UNCHANGED <<traffic, time_since_spawn, autopilot, score, running, collision, events, ret>>

\* variant: the ego moving down the screen
EgoMoveDown ==
    /\ pc = "egomove"
    /\ ego' = [ego EXCEPT !.y = @ + ego.speed]
    /\ pc' = "shift"
    /\ UNCHANGED <<traffic, time_since_spawn, autopilot, score, running, action, tgt_speed, collision, events, ret>>

\* line 147: ego.y -= ego.speed
EgoMove ==
    /\ pc = "egomove"
    /\ ego' = [ego EXCEPT !.y = @ - ego.speed]
    /\ pc' = "shift"
    /\ UNCHANGED <<traffic, time_since_spawn, autopilot, score, running, action, tgt_speed, collision, events, ret>>

MIDPOINT == (HEIGHT \div 2) * Scale

\* variant: only the ego is put back to the midpoint
ShiftEgoOnly ==
    /\ pc = "shift"
    /\ IF ego.y < MIDPOINT
       THEN ego' = [ego EXCEPT !.y = MIDPOINT]
       ELSE UNCHANGED ego
    /\ pc' = "collide"
    /\ UNCHANGED <<traffic, time_since_spawn, autopilot, score, running, action, tgt_speed, collision, events, ret>>

\* lines 150-155: shift the world so that the ego stays at the midpoint
Shift ==
    /\ pc = "shift"
    /\ IF ego.y < MIDPOINT
       THEN LET shift == MIDPOINT - ego.y
            IN  /\ ego' = [ego EXCEPT !.y = @ + shift]
                /\ traffic' = [i \in 1 .. Len(traffic) |-> [traffic[i] EXCEPT !.y = @ + shift]]
       ELSE UNCHANGED <<ego, traffic>>
    /\ pc' = "collide"
    /\ UNCHANGED <<time_since_spawn, autopilot, score, running, action, tgt_speed, collision, events, ret>>

\* variant: a scan that looks at the first vehicle only
CollisionFromFirst(i, e_rect) ==
    IF i > Len(traffic) THEN FALSE
    ELSE Colliderect(e_rect, Rect(traffic[i]))

\* lines 158-163: the scan for the first colliding vehicle, from index i on
RECURSIVE CollisionFrom(_, _)
CollisionFrom(i, e_rect) ==
    IF i > Len(traffic) THEN FALSE
    ELSE IF Colliderect(e_rect, Rect(traffic[i])) THEN TRUE
    ELSE CollisionFrom(i + 1, e_rect)

CheckCollision == CollisionFrom(1, Rect(ego))

\* lines 164-170: the recovery
Recovered == [ego EXCEPT !.lane = EGO_START_LANE, !.y = EGO_START_Y, !.speed = RESET_SPEED]
\* variant: one count per overlapping vehicle (a scan without break)
BumpPerHit(n) ==
    n + Cardinality({i \in 1 .. Len(traffic) : Colliderect(Rect(ego), Rect(traffic[i]))})
Bump(n) == n + 1

\* variant: a collision ends the main loop
CollideHalts ==
    /\ pc = "collide"
    /\ collision' = CheckCollision
    /\ IF CheckCollision
       THEN /\ score' = [score EXCEPT !.collisions = @ + 1]
            /\ ego' = Recovered
            /\ traffic' = <<>>
            /\ running' = FALSE
       ELSE UNCHANGED <<score, ego, traffic, running>>
    /\ pc' = "tick"
    /\ UNCHANGED <<time_since_spawn, autopilot, action, tgt_speed, events, ret>>

Collide ==
    /\ pc = "collide"
    /\ collision' = CheckCollision
    /\ IF CheckCollision
       THEN /\ score' = [score EXCEPT !.collisions = Bump(@)]
            /\ ego' = Recovered
            /\ traffic' = <<>>
       ELSE UNCHANGED <<score, ego, traffic>>
    /\ pc' = "tick"
    /\ UNCHANGED <<time_since_spawn, autopilot, running, action, tgt_speed, events, ret>>

Next ==
    \/ Tick
    \/ Quit
    \/ Events
    \/ Spawn
    \/ Move
    \/ Cull
    \/ EgoLogic
    \/ EgoMove
    \/ Shift
    \/ Collide

Spec == Init /\ [][Next]_vars

\* ---------- the queries applied to sampled world states ----------
\* ego positions: the midpoint, the start position and half a pixel above it
\* (the ego after one frame at speed 0.5); traffic positions
\* around the ego: far ahead, at the safe distance, inside it, at the edges
\* of the safety window, touching, overlapping by half a pixel, overlapping
QEgoYs == {MIDPOINT, EGO_START_Y - HALF, EGO_START_Y}
QOffsets == {-370 * Scale, -190 * Scale, -150 * Scale, -110 * Scale, -70 * Scale,
             -70 * Scale + HALF, 0, 80 * Scale}
QCars ==
    {Car(l, ey + d, sp, TRAFFIC_WIDTH, TRAFFIC_HEIGHT, FALSE) :
        l \in SpawnLanes, ey \in {MIDPOINT}, d \in QOffsets, sp \in SpawnSpeeds}
QTraffic == UNION {[1 .. n -> QCars] : n \in 0 .. MaxQTraffic}

InitQ ==
    /\ ego \in {Car(l, y, INIT_SPEED, EGO_WIDTH, EGO_HEIGHT, TRUE) :
                   l \in SpawnLanes, y \in QEgoYs}
    /\ traffic \in QTraffic
    /\ time_since_spawn = 0
    /\ autopilot = TRUE
    /\ score = [collisions |-> 0, frames |-> 0]
    /\ running = TRUE
    /\ action = "keep"
    /\ tgt_speed = MAX_SPEED
    /\ collision = FALSE
    /\ events = <<>>
    /\ pc = "query"
    /\ ret = [fn |-> "none"]

\* lines 84, 199: find_vehicle_ahead(lane, ego.y)
QAhead ==
    /\ pc = "query"
    /\ \E lane \in 0 .. (LANES - 1) :
          ret' = [fn |-> "ahead", lane |-> lane, y |-> ego.y,
                  val |-> find_vehicle_ahead(lane, ego.y)]
    /\ pc' = "answered"
    /\ UNCHANGED <<ego, traffic, time_since_spawn, autopilot, score, running,
                   action, tgt_speed, collision, events>>

\* variant: the safety query consumes the vehicle it inspects first
QSafeConsuming ==
    /\ pc = "query"
    /\ \E lane \in 0 .. (LANES - 1) :
          ret' = [fn |-> "safe", lane |-> lane, val |-> safe_to_change(lane)]
    /\ traffic' = IF traffic = <<>> THEN traffic ELSE Tail(traffic)
    /\ pc' = "answered"
    /\ UNCHANGED <<ego, time_since_spawn, autopilot, score, running,
                   action, tgt_speed, collision, events>>

\* lines 94, 135, 137: safe_to_change(target_lane)
QSafe ==
    /\ pc = "query"
    /\ \E lane \in 0 .. (LANES - 1) :
          ret' = [fn |-> "safe", lane |-> lane, val |-> safe_to_change(lane)]
    /\ pc' = "answered"
    /\ UNCHANGED <<ego, traffic, time_since_spawn, autopilot, score, running,
                   action, tgt_speed, collision, events>>

\* line 133: action, tgt_speed = controller_rule_based()
QController ==
    /\ pc = "query"
    /\ action' = controller_rule_based[1]
    /\ tgt_speed' = controller_rule_based[2]
    /\ ret' = [fn |-> "controller"]
    /\ pc' = "answered"
    /\ UNCHANGED <<ego, traffic, time_since_spawn, autopilot, score, running, collision, events>>

\* lines 158-163: the collision check
QCollision ==
    /\ pc = "query"
    /\ collision' = CheckCollision
    /\ ret' = [fn |-> "collision"]
    /\ pc' = "answered"
    /\ UNCHANGED <<ego, traffic, time_since_spawn, autopilot, score, running,
                   action, tgt_speed, events>>

\* the same query called once more on the world as it is (the code does so:
\* safe_to_change at lines 94 and 135, find_vehicle_ahead at lines 84 and 199)
QAgain ==
    /\ pc = "answered"
    /\ ret' = IF ret.fn = "ahead"
              THEN [ret EXCEPT !.val = find_vehicle_ahead(ret.lane, ego.y)]
              ELSE IF ret.fn = "safe"
              THEN [ret EXCEPT !.val = safe_to_change(ret.lane)]
              ELSE ret
    /\ action' = IF ret.fn = "controller" THEN controller_rule_based[1] ELSE action
    /\ tgt_speed' = IF ret.fn = "controller" THEN controller_rule_based[2] ELSE tgt_speed
    /\ collision' = IF ret.fn = "collision" THEN CheckCollision ELSE collision
    /\ pc' = "answered"
    /\ UNCHANGED <<ego, traffic, time_since_spawn, autopilot, score, running, events>>

NextQ ==
    \/ QAhead
    \/ QSafe
    \/ QController
    \/ QCollision
    \/ QAgain

SpecQ == InitQ /\ [][NextQ]_vars

(***************************************************************************)
(* The main loop later in a run: the ego has reached the midpoint, some    *)
(* vehicles are just ahead of it and others have fallen behind and are     *)
(* about to leave through the bottom margin.  Frames LateFrom + 1 to       *)
(* LateFrom + LateSpan, regular frame time, no input.                      *)
(***************************************************************************)
LateFrom == 120
LateSpan == 12

\* sampled positions (top edge): just ahead of the ego, such that one tick
\* brings the vehicle to 230.5; beside the ego's tail; and near the margin
\* HEIGHT + 200 = 800, such that the next move brings the vehicle to
\* exactly 800, above it, or short of it
LateYs ==
    {218 * Scale, 222 * Scale, 400 * Scale,
     790 * Scale, (1587 * Scale) \div 2, (1595 * Scale) \div 2, 799 * Scale}
LateLanes == {0, 1}
LateCars ==
    {Car(l, y, s, TRAFFIC_WIDTH, TRAFFIC_HEIGHT, FALSE) :
        l \in LateLanes, y \in LateYs, s \in SpawnSpeeds}
LateTraffic == UNION {[1 .. n -> LateCars] : n \in 0 .. 2}
\* manual driving at the initial speed, or the autopilot at full speed
LateEgos ==
    {<<FALSE, Car(EGO_START_LANE, MIDPOINT, INIT_SPEED, EGO_WIDTH, EGO_HEIGHT, TRUE)>>,
     <<TRUE, Car(EGO_START_LANE, MIDPOINT, MAX_SPEED, EGO_WIDTH, EGO_HEIGHT, TRUE)>>}

\* the state at the end of frame LateFrom: the collision check of that frame
\* has found nothing
InitLate ==
    /\ \E e \in LateEgos : autopilot = e[1] /\ ego = e[2]
    /\ traffic \in LateTraffic
    /\ ~CheckCollision
    /\ time_since_spawn = 0
    /\ score = [collisions |-> 0, frames |-> LateFrom]
    /\ running = TRUE
    /\ action = "keep"
    /\ tgt_speed = MAX_SPEED
    /\ collision = FALSE
    /\ events = <<>>
    /\ pc = "tick"
    /\ ret = [fn |-> "none"]

\* lines 100-103 in a regular frame without input
TickLate ==
    /\ pc = "tick"
    /\ running
    /\ score.frames < LateFrom + LateSpan
    /\ \E dt \in FrameDts :
          time_since_spawn' = time_since_spawn + dt
    /\ score' = [score EXCEPT !.frames = @ + 1]
    /\ events' = <<>>
    /\ pc' = "events"
    /\ UNCHANGED <<ego, traffic, autopilot, running, action, tgt_speed, collision, ret>>

NextLate ==
    \/ TickLate
    \/ Events
    \/ Spawn
    \/ Move
    \/ Cull
    \/ EgoLogic
    \/ EgoMove
    \/ Shift
    \/ Collide

\* the loop runs on by itself: whenever a step is possible it is taken
SpecLate == InitLate /\ [][NextLate]_vars /\ WF_vars(NextLate)

(***************************************************************************)
(* Properties of the main loop (checked under Spec)                        *)
(***************************************************************************)

\* C1: in every reachable state the lane of the ego and of every traffic
\* vehicle is an integer in [0, LANES).
C1_LanesInRange ==
    /\ ego.lane \in 0 .. (LANES - 1)
    /\ \A i \in 1 .. Len(traffic) : traffic[i].lane \in 0 .. (LANES - 1)

\* a frame after which the autopilot has just moved the ego into lane 0
\* while traffic is on the road
C1_Witness ==
    /\ pc = "egomove" /\ autopilot /\ action = "left" /\ ego.lane = 0
    /\ Len(traffic) >= 1

\* C2: in every reachable state the ego speed lies in [0.5, MAX_SPEED].
C2_SpeedInRange == ego.speed >= HALF /\ ego.speed <= MAX_SPEED

\* the manual decrease has reached its floor of 0.5
C2_Witness == pc = "spawn" /\ ego.speed = HALF

\* C3: the collision step of a frame that detects a collision adds exactly 1
\* to the collision counter, empties the traffic list and puts the ego back
\* to (EGO_START_LANE, EGO_START_Y, 4.5); a collision step that detects none
\* leaves counter, traffic and ego as they are.
C3_Recovery ==
    [][pc = "collide" =>
          IF collision'
          THEN /\ score'.collisions = score.collisions + 1
               /\ score'.frames = score.frames
               /\ traffic' = <<>>
               /\ ego'.lane = 1 /\ ego'.y = 450 * Scale /\ 2 * ego'.speed = 9 * Scale
               /\ ego'.w = ego.w /\ ego'.h = ego.h /\ ego'.is_ego
          ELSE score' = score /\ traffic' = traffic /\ ego' = ego]_vars

\* a recovery has just been applied
C3_Witness ==
    /\ pc = "tick" /\ collision /\ traffic = <<>> /\ score.collisions = 1
    /\ ego.y = 450 * Scale

\* C9 as stated: a spawn step whose accumulator has reached SPAWN_INTERVAL
\* (exactly or more) appends one vehicle and resets the accumulator to at
\* most the remainder; one that has not reached it spawns nothing.
C9_Original ==
    [][pc = "spawn" =>
          IF time_since_spawn >= SPAWN_INTERVAL
          THEN /\ Len(traffic') = Len(traffic) + 1
               /\ time_since_spawn' <= time_since_spawn - SPAWN_INTERVAL
          ELSE traffic' = traffic /\ time_since_spawn' = time_since_spawn]_vars

\* C9 (amended): a spawn step whose accumulator strictly exceeds
\* SPAWN_INTERVAL appends exactly one vehicle (lane in [0, LANES), position
\* in [-h-200, -h], speed in [2.5, 6.5]) and resets the accumulator to 0; one
\* whose accumulator is at most SPAWN_INTERVAL, the exact value included,
\* spawns nothing and keeps the accumulator; no other step adds a vehicle,
\* and only the frame start adds to the accumulator.
C9_SpawnTiming ==
    [][/\ pc = "spawn" =>
            IF time_since_spawn > 1200
            THEN /\ Len(traffic') = Len(traffic) + 1
                 /\ SubSeq(traffic', 1, Len(traffic)) = traffic
                 /\ LET c == traffic'[Len(traffic')]
                    IN  /\ c.lane \in 0 .. (LANES - 1)
                        /\ c.y <= -70 * Scale /\ c.y >= -270 * Scale
                        /\ 2 * c.speed >= 5 * Scale /\ 2 * c.speed <= 13 * Scale
                        /\ c.w = 40 /\ c.h = 70 /\ ~c.is_ego
                 /\ time_since_spawn' = 0
            ELSE traffic' = traffic /\ time_since_spawn' = time_since_spawn
       /\ pc # "spawn" => Len(traffic') <= Len(traffic)
       /\ pc \notin {"spawn", "tick"} => time_since_spawn' = time_since_spawn
       /\ pc = "tick" => time_since_spawn' >= time_since_spawn]_vars

\* a vehicle has just been spawned in the frame after the one in which the
\* accumulator stood at exactly SPAWN_INTERVAL
C9_Witness ==
    /\ pc = "move" /\ time_since_spawn = 0 /\ score.frames = 31
    /\ Len(traffic) = 1

\* the semantics of one input command, as the interface describes it
CmdLane(lane, ev) ==
    IF ev = "LEFT" THEN (IF lane - 1 < 0 THEN 0 ELSE lane - 1)
    ELSE IF ev = "RIGHT" THEN (IF lane + 1 > LANES - 1 THEN LANES - 1 ELSE lane + 1)
    ELSE lane
CmdSpeed(speed, ev) ==
    IF ev = "UP" THEN (IF speed + HALF > MAX_SPEED THEN MAX_SPEED ELSE speed + HALF)
    ELSE IF ev = "DOWN" THEN (IF speed - HALF < HALF THEN HALF ELSE speed - HALF)
    ELSE speed
CmdAuto(flag, ev) == IF ev = "SPACE" THEN ~flag ELSE flag

RECURSIVE CmdsLane(_, _)
CmdsLane(lane, evs) ==
    IF evs = <<>> THEN lane ELSE CmdsLane(CmdLane(lane, Head(evs)), Tail(evs))
RECURSIVE CmdsSpeed(_, _)
CmdsSpeed(speed, evs) ==
    IF evs = <<>> THEN speed ELSE CmdsSpeed(CmdSpeed(speed, Head(evs)), Tail(evs))
RECURSIVE CmdsAuto(_, _)
CmdsAuto(flag, evs) ==
    IF evs = <<>> THEN flag ELSE CmdsAuto(CmdAuto(flag, Head(evs)), Tail(evs))

\* C10: the event step applies every queued command to the ego whatever the
\* autopilot flag is and whatever the traffic is: lane keys move the lane by
\* one clamped to [0, LANES-1], speed keys add or subtract 0.5 within
\* [0.5, MAX_SPEED], the toggle flips the flag; the step comes before the
\* spawn step and changes neither traffic nor the ego position.
C10_ManualInput ==
    [][pc = "events" =>
          /\ ego'.lane = CmdsLane(ego.lane, events)
          /\ ego'.speed = CmdsSpeed(ego.speed, events)
          /\ ego'.y = ego.y
          /\ autopilot' = CmdsAuto(autopilot, events)
          /\ traffic' = traffic
          /\ time_since_spawn' = time_since_spawn
          /\ pc' = "spawn"]_vars

\* a steering key has just moved the ego, with the autopilot on, into a lane
\* where it overlaps a vehicle (the traffic has not moved since the last
\* collision check, so only the key can have produced the overlap)
C10_Witness ==
    /\ pc = "spawn" /\ score.frames \in SteerTicks /\ autopilot
    /\ CheckCollision

(***************************************************************************)
(* Properties of the queries (checked under SpecQ)                         *)
(***************************************************************************)

\* the bounding box {x, y, w, h} with real-valued position, in fixed point
BoxX(c) == (270 + c.lane * 120) * Scale + ((120 - c.w) * Scale) \div 2
RealOverlap(a, b) ==
    /\ BoxX(a) < BoxX(b) + b.w * Scale /\ BoxX(a) + a.w * Scale > BoxX(b)
    /\ a.y < b.y + b.h * Scale /\ a.y + a.h * Scale > b.y

\* the same box with x and y cut to whole pixels (towards zero)
Whole(v) == IF v >= 0 THEN v \div Scale ELSE -((-v) \div Scale)
WholeOverlap(a, b) ==
    /\ Whole(BoxX(a)) < Whole(BoxX(b)) + b.w /\ Whole(BoxX(a)) + a.w > Whole(BoxX(b))
    /\ Whole(a.y) < Whole(b.y) + b.h /\ Whole(a.y) + a.h > Whole(b.y)

\* C4 as stated: the check reports a collision iff the ego's box strictly
\* overlaps some traffic box at the real-valued positions.
C4_Original ==
    ret.fn = "collision" =>
        (collision <=> \E i \in 1 .. Len(traffic) : RealOverlap(ego, traffic[i]))

\* C4 (amended): the check reports a collision iff the ego's box strictly
\* overlaps some traffic box after x and y of both boxes are truncated to
\* whole pixels; boxes that only share an edge do not collide and the test
\* is symmetric in its arguments.
C4_CollisionCheck ==
    ret.fn = "collision" =>
        /\ collision <=> \E i \in 1 .. Len(traffic) : WholeOverlap(ego, traffic[i])
        /\ \A i \in 1 .. Len(traffic) :
              /\ Colliderect(Rect(ego), Rect(traffic[i])) <=> Colliderect(Rect(traffic[i]), Rect(ego))
              /\ (traffic[i].lane = ego.lane /\ Whole(traffic[i].y) + traffic[i].h = Whole(ego.y))
                    => ~Colliderect(Rect(ego), Rect(traffic[i]))

\* the check has run on a vehicle that touches the ego's front edge exactly
\* and reported nothing
C4_Witness ==
    /\ ret.fn = "collision" /\ ~collision /\ Len(traffic) >= 1
    /\ traffic[1].lane = ego.lane /\ traffic[1].y + traffic[1].h * Scale = ego.y

\* C5: safe_to_change(lane) is false exactly when some traffic vehicle of
\* that lane has y + h > egoY - 40 and y < egoY + 80.
C5_LaneSafe ==
    ret.fn = "safe" =>
        (ret.val <=> ~\E i \in 1 .. Len(traffic) :
                        /\ traffic[i].lane = ret.lane
                        /\ traffic[i].y + traffic[i].h * Scale > ego.y - 40 * Scale
                        /\ traffic[i].y < ego.y + 80 * Scale)

\* the lane was found safe although it holds a vehicle whose bottom edge is
\* exactly at egoY - 40, and another lane holds a vehicle inside the window
C5_Witness ==
    /\ ret.fn = "safe" /\ ret.val /\ Len(traffic) = 2
    /\ traffic[1].lane = ret.lane
    /\ traffic[1].y + traffic[1].h * Scale = ego.y - 40 * Scale
    /\ traffic[2].lane # ret.lane /\ traffic[2].y = ego.y

\* the vehicles of a lane whose bottom edge is strictly above Y
AheadOf(lane, y) ==
    {i \in 1 .. Len(traffic) :
        traffic[i].lane = lane /\ traffic[i].y + traffic[i].h * Scale < y}
GapOf(i, y) == y - (traffic[i].y + traffic[i].h * Scale)

\* C6: find_vehicle_ahead(lane, Y) returns none exactly when no vehicle of
\* the lane has y + h < Y, and otherwise a vehicle of the lane with
\* y + h < Y whose gap is minimal among those.
C6_NearestAhead ==
    ret.fn = "ahead" =>
        LET A == AheadOf(ret.lane, ret.y)
        IN  /\ (ret.val = None) <=> (A = {})
            /\ A # {} => \E i \in A :
                             /\ traffic[i] = ret.val
                             /\ \A j \in A : GapOf(i, ret.y) <= GapOf(j, ret.y)

\* the nearer of two vehicles ahead in the lane was returned, and it is the
\* second of the list
C6_Witness ==
    /\ ret.fn = "ahead" /\ Len(traffic) = 2
    /\ traffic[1].lane = ret.lane /\ traffic[2].lane = ret.lane
    /\ traffic[1].y < traffic[2].y
    /\ traffic[2].y + traffic[2].h * Scale < ret.y
    /\ ret.val = traffic[2]

\* the decision table of the controller
Blocked == \E i \in AheadOf(ego.lane, ego.y) : GapOf(i, ego.y) < 120 * Scale
LaneClear(lane) ==
    /\ lane >= 0 /\ lane < LANES
    /\ \A i \in 1 .. Len(traffic) :
          traffic[i].lane = lane =>
              ~(/\ traffic[i].y + traffic[i].h * Scale > ego.y - 40 * Scale
                /\ traffic[i].y < ego.y + 80 * Scale)
TableAction ==
    IF ~Blocked THEN "keep"
    ELSE IF LaneClear(ego.lane - 1) THEN "left"
    ELSE IF LaneClear(ego.lane + 1) THEN "right"
    ELSE "keep"

\* C7: the controller's action is keep when nothing is ahead within
\* SAFE_DISTANCE, otherwise left if lane-1 exists and is safe, otherwise
\* right if lane+1 exists and is safe, otherwise keep.
C7_DecisionTable == ret.fn = "controller" => action = TableAction

\* blocked in the middle lane with both neighbours safe: left was chosen
C7_Witness ==
    /\ ret.fn = "controller" /\ ego.lane = 1 /\ Blocked
    /\ LaneClear(0) /\ LaneClear(2) /\ action = "left"

\* the vehicles ahead in the ego lane at the minimal gap
Nearest ==
    {i \in AheadOf(ego.lane, ego.y) :
        \A j \in AheadOf(ego.lane, ego.y) : GapOf(i, ego.y) <= GapOf(j, ego.y)}

\* C8: the target speed is MAX_SPEED when nothing is ahead within
\* SAFE_DISTANCE; otherwise it is max(MIN_SPEED, blocking.speed - 0.5) for a
\* nearest vehicle ahead, whatever the action, and is strictly below that
\* vehicle's speed.
C8_TargetSpeed ==
    ret.fn = "controller" =>
        IF ~Blocked THEN tgt_speed = 8 * Scale
        ELSE \E i \in Nearest :
                /\ tgt_speed = (IF traffic[i].speed - HALF > 2 * Scale
                                THEN traffic[i].speed - HALF ELSE 2 * Scale)
                /\ tgt_speed < traffic[i].speed

\* blocked by a vehicle at the lowest traffic speed, 2.5, with no lane free:
\* the target is MIN_SPEED and the action keep
C8_Witness ==
    /\ ret.fn = "controller" /\ Blocked /\ action = "keep"
    /\ tgt_speed = 2 * Scale
    /\ \A i \in Nearest : 2 * traffic[i].speed = 5 * Scale

(***************************************************************************)
(* Further properties of the main loop (checked under Spec)                *)
(***************************************************************************)

\* C11: while the autopilot is off, a frame without input leaves the ego's
\* lane and speed alone unless the collision step recovers, and the world
\* still advances: the accumulator grows, traffic moves by its speed and is
\* culled, the ego moves up by its speed, the scroll and the collision check
\* are applied.
C11_ManualFrame ==
    [][~autopilot =>
          /\ (pc = "events" /\ events = <<>>) => (ego' = ego /\ autopilot' = autopilot)
          /\ pc \in {"spawn", "move", "cull", "ego", "egomove", "shift"} =>
                (ego'.lane = ego.lane /\ ego'.speed = ego.speed)
          /\ pc = "ego" => (ego' = ego /\ action' = action /\ tgt_speed' = tgt_speed)
          /\ (pc = "collide" /\ ~collision') => ego' = ego
          /\ (pc = "tick" /\ pc' = "events") => time_since_spawn' > time_since_spawn
          /\ pc = "move" =>
                /\ Len(traffic') = Len(traffic)
                /\ \A i \in 1 .. Len(traffic) : traffic'[i].y = traffic[i].y + traffic[i].speed
          /\ pc = "cull" =>
                /\ Len(traffic') <= Len(traffic)
                /\ \A i \in 1 .. Len(traffic') : traffic'[i].y < 800 * Scale
          /\ pc = "egomove" => ego'.y = ego.y - ego.speed
          /\ pc = "shift" => ego'.y >= 300 * Scale
          /\ pc = "collide" =>
                (collision' <=> \E i \in 1 .. Len(traffic) : WholeOverlap(ego, traffic[i]))]_vars

\* the autopilot is off, a vehicle blocks the ego lane within SAFE_DISTANCE
\* and the controller would have changed lane, yet the ego step has left
\* lane and speed as they were
C11_Witness ==
    /\ pc = "egomove" /\ ~autopilot /\ score.frames > 1
    /\ controller_rule_based[1] = "left"
    /\ ego.lane = 1 /\ 2 * ego.speed = 13 * Scale

\* C12: no step decreases the collision counter; only the collision step
\* changes it, by 0 or 1 per frame; the recovery neither stops the loop nor
\* leaves the loop body (running is unchanged and the next frame follows).
C12_CounterMonotone ==
    [][/\ score'.collisions >= score.collisions
       /\ score'.collisions <= score.collisions + 1
       /\ pc # "collide" => score'.collisions = score.collisions
       /\ pc = "collide" => (running' = running /\ pc' = "tick")
       /\ (pc = "tick" /\ running /\ pc' # "tick") => pc' = "events"]_vars

\* the frame after a recovery has started
C12_Witness ==
    /\ pc = "events" /\ collision /\ score.collisions = 1 /\ running

\* C13 as stated: in every reachable state the ego speed lies in
\* [MIN_SPEED, MAX_SPEED] = [2.0, 8.0].
C13_Original == ego.speed >= 2 * Scale /\ ego.speed <= 8 * Scale

\* C13 (amended): the ego speed lies in [0.5, MAX_SPEED] = [0.5, 8.0] before
\* and after every step, and only the event step (manual decrease) takes it
\* from at least MIN_SPEED to below MIN_SPEED.
C13_SpeedBounds ==
    [][/\ 2 * ego.speed >= Scale /\ ego.speed <= 8 * Scale
       /\ 2 * ego'.speed >= Scale /\ ego'.speed <= 8 * Scale
       /\ (pc # "events" /\ ego.speed >= 2 * Scale) => ego'.speed >= 2 * Scale]_vars

\* the autopilot is driving the ego at a speed below MIN_SPEED: it has begun
\* to raise the speed from the manual floor
C13_Witness ==
    /\ pc = "egomove" /\ autopilot
    /\ ego.speed < 2 * Scale /\ 2 * ego.speed > Scale

(***************************************************************************)
(* Further properties of the queries (checked under SpecQ)                 *)
(***************************************************************************)

C15_RecheckAgrees ==
    [][(pc = "ego" /\ autopilot) =>
          /\ action' \in {"left", "right", "keep"}
          /\ action' = "left" =>
                (ego.lane > 0 /\ safe_to_change(ego.lane - 1) /\ ego'.lane = ego.lane - 1)
          /\ action' = "right" =>
                (/\ ego.lane < LANES - 1 /\ safe_to_change(ego.lane + 1)
                 /\ ego'.lane = ego.lane + 1)
          /\ action' = "keep" => ego'.lane = ego.lane]_vars

\* the autopilot has just changed to the left lane on the controller's word
C15_Witness ==
    /\ pc = "egomove" /\ autopilot /\ action = "left" /\ ego.lane = 0
    /\ score.collisions = 0 /\ tgt_speed < MAX_SPEED

\* C17: the world shift is a pure translation: when the ego is above the
\* midpoint (ego.y < 300) after its move, ego.y becomes exactly 300 and
\* every vehicle's distance to the ego is as before; lanes, speeds and the
\* members of traffic are unchanged; when the ego is at or below the
\* midpoint nothing moves.
C17_PureTranslation ==
    [][pc = "shift" =>
          /\ Len(traffic') = Len(traffic)
          /\ ego'.lane = ego.lane /\ ego'.speed = ego.speed
          /\ \A i \in 1 .. Len(traffic) :
                /\ traffic'[i].lane = traffic[i].lane
                /\ traffic'[i].speed = traffic[i].speed
                /\ traffic'[i].y - ego'.y = traffic[i].y - ego.y
          /\ ego.y < 300 * Scale => ego'.y = 300 * Scale
          /\ ego.y >= 300 * Scale => (ego' = ego /\ traffic' = traffic)]_vars

\* the world has just been shifted with two vehicles on the road
C17_Witness ==
    /\ pc = "collide" /\ ego.y = 300 * Scale /\ Len(traffic) = 2
    /\ traffic[1].y > ego.y /\ traffic[2].y < ego.y

\* C19: at the end of every tick the ego's position lies in [300, 450]
\* (HEIGHT // 2 to EGO_START_Y).
C19_EgoWindow ==
    pc \in {"tick", "done"} => (ego.y >= 300 * Scale /\ ego.y <= 450 * Scale)

\* a tick has ended with the ego on the midpoint, and another one after a
\* recovery put it back to its start position
C19_Witness ==
    /\ pc = "tick" /\ score.frames > 30
    /\ \/ ego.y = 300 * Scale /\ score.collisions = 0
       \/ ego.y = 450 * Scale /\ score.collisions = 1 /\ collision

\* C20 as stated: at the end of every tick no traffic vehicle's box overlaps
\* the ego's box at the real-valued positions.
C20_Original ==
    pc \in {"tick", "done"} =>
        \A i \in 1 .. Len(traffic) : ~RealOverlap(ego, traffic[i])

\* C20 (amended): at the end of every tick no traffic vehicle's box overlaps
\* the ego's box once x and y of both boxes are truncated to whole pixels: an
\* overlap the check of that tick sees is removed by the recovery, which
\* empties traffic.
C20_NoOverlapSurvives ==
    pc \in {"tick", "done"} =>
        /\ \A i \in 1 .. Len(traffic) : ~WholeOverlap(ego, traffic[i])
        /\ collision => traffic = <<>>

\* a tick has ended with a vehicle of the ego's lane reaching less than a
\* pixel into the ego's box, unnoticed by the check
C20_Witness ==
    /\ pc = "tick" /\ score.frames > LateFrom /\ ~collision
    /\ \E i \in 1 .. Len(traffic) :
          /\ traffic[i].lane = ego.lane
          /\ traffic[i].y + traffic[i].h * Scale > ego.y
          /\ traffic[i].y + (traffic[i].h - 1) * Scale < ego.y
          /\ ~WholeOverlap(ego, traffic[i])

(***************************************************************************)
(* Properties of the traffic's way out (checked under SpecLate)            *)
(***************************************************************************)

\* C16 as stated: the cull removes a vehicle iff its position after the
\* move is strictly greater than 800; a vehicle at exactly 800 is kept.
C16_Original ==
    [][pc = "cull" =>
          traffic' = SelectSeq(traffic, LAMBDA c : c.y <= 800 * Scale)]_vars

\* C16 (amended): the cull removes a vehicle iff its position after the
\* move is 800 (HEIGHT + 200) or more; a vehicle short of the margin is
\* kept, in order and with every attribute as it was.
C16_Cull ==
    [][pc = "cull" =>
          traffic' = SelectSeq(traffic, LAMBDA c : c.y < 800 * Scale)]_vars

\* the cull has just run and kept a vehicle that its move left at 792.5
C16_Witness ==
    /\ pc = "ego" /\ Len(traffic) = 1 /\ score.frames = LateFrom + 1
    /\ traffic[1].y = (1585 * Scale) \div 2 /\ traffic[1].speed = (5 * Scale) \div 2

====
